---- MODULE Spec2Model ----
(***************************************************************************)
(* Pope of Culture: the analysis cache, the movie resolver, the            *)
(* /api/analysis request handler, the recommendations with the dashboard   *)
(* page, the sentiment search and analysis, and the timers of the child    *)
(* processes.                                                              *)
(*                                                                         *)
(* Titles are sequences of characters, so that lower-casing, whitespace    *)
(* collapsing and the embedding of a title into the Python source of the   *)
(* child process are computed and not assumed.                             *)
(***************************************************************************)
EXTENDS Integers, Sequences, FiniteSets, TLC

VARIABLES dataset, cache, req, probe, written, dash, rec, sent, calls, spage

vars == <<dataset, cache, req, probe, written, dash, rec, sent, calls, spage>>

\* the dashboard page, the recommendation request, the sentiment requests, the
\* child processes of the routes and the sentiments page, which the cache,
\* the resolver and the analysis request leave alone
others == <<dash, rec, sent, calls, spage>>

(***************************************************************************)
(* Bounds.                                                                 *)
(***************************************************************************)
\* number of analysis requests that can be in flight at the same time
MaxReq == 2
\* number of direct cache writes in the cache component's specification
MaxWrites == 2
\* number of rows of the datasets the resolver is tried on
MaxRows == 2
\* number of reviews the review fetcher returns at most
MaxReviews == 5

\* "no id": Python None / a dataset row whose id is NaN
NoId == 0

MovieIds == {1, 2}

\* the content of an analysis (ratings, arc, peak moments) as one opaque value
Arcs == {"rising"}

(***************************************************************************)
(* Characters and titles.                                                  *)
(***************************************************************************)
BS == "\\"
BEL == "<BEL>"
BSP == "<BACKSPACE>"

t_a == <<"a">>
t_A == <<"A">>
t_ab == <<"a", "b">>
t_sp_a == <<" ", "a">>
t_a_b == <<"a", " ", "b">>
t_A__b == <<"A", " ", " ", "b">>
t_b == <<"b">>
t_B == <<"B">>
t_bs_a == <<BS, "a">>
t_bs == <<BS>>

\* titles a client can send and a dataset row or a cache entry can hold
Titles == {t_a, t_A, t_ab, t_sp_a, t_a_b, t_A__b, t_b}

\* titles with a backslash, which the Python string literal alters
BackslashTitles == {t_bs_a, t_bs}

LowerChar(c) == IF c = "A" THEN "a" ELSE IF c = "B" THEN "b" ELSE c

\* str.lower()
Lower(s) == [i \in DOMAIN s |-> LowerChar(s[i])]

RECURSIVE Squeeze(_, _)
\* drops leading blanks and collapses every run of blanks into one
Squeeze(s, afterBlank) ==
    IF s = <<>> THEN <<>>
    ELSE IF Head(s) = " "
         THEN IF afterBlank THEN Squeeze(Tail(s), TRUE)
              ELSE <<" ">> \o Squeeze(Tail(s), TRUE)
         ELSE <<Head(s)>> \o Squeeze(Tail(s), FALSE)

DropTrailingBlank(s) ==
    IF s # <<>> /\ s[Len(s)] = " " THEN SubSeq(s, 1, Len(s) - 1) ELSE s

\* the title key without lower-casing
NormalizeTitleNoLower(t) == DropTrailingBlank(Squeeze(t, TRUE))

\* the cache's title key: lower-cased, whitespace-collapsed
NormalizeTitle(t) == DropTrailingBlank(Squeeze(Lower(t), TRUE))

\* s contains sub as a literal substring
Contains(s, sub) ==
    \E i \in 0..(Len(s) - Len(sub)) : SubSeq(s, i + 1, i + Len(sub)) = sub

(***************************************************************************)
(* The title inside the child process.  The handler pastes the title into  *)
(* a double-quoted Python string literal after escaping double quotes      *)
(* only; Python then reads the literal with its own escape rules.          *)
(***************************************************************************)
QUOTE == "<QUOTE>"

t_q == <<QUOTE>>
t_bs_q == <<BS, QUOTE>>

RECURSIVE JsEscapeQuotes(_)
\* title.replace(/"/g, '\\"')
JsEscapeQuotes(s) ==
    IF s = <<>> THEN <<>>
    ELSE IF Head(s) = QUOTE THEN <<BS, QUOTE>> \o JsEscapeQuotes(Tail(s))
         ELSE <<Head(s)>> \o JsEscapeQuotes(Tail(s))

RECURSIVE PyLiteralOk(_)
\* the text between the quotes is one complete string literal: no bare
\* quote ends it early and no backslash swallows the closing quote
PyLiteralOk(s) ==
    IF s = <<>> THEN TRUE
    ELSE IF Head(s) = BS THEN Len(s) >= 2 /\ PyLiteralOk(Tail(Tail(s)))
         ELSE IF Head(s) = QUOTE THEN FALSE
              ELSE PyLiteralOk(Tail(s))

PyEscape(c) ==
    IF c = BS THEN <<BS>>
    ELSE IF c = QUOTE THEN <<QUOTE>>
    ELSE IF c = "a" THEN <<BEL>>
    ELSE IF c = "b" THEN <<BSP>>
    ELSE <<BS, c>>

RECURSIVE PyLiteralValue(_)
\* the value Python gives a well-formed literal
PyLiteralValue(s) ==
    IF s = <<>> THEN <<>>
    ELSE IF Head(s) = BS
         THEN PyEscape(s[2]) \o PyLiteralValue(Tail(Tail(s)))
         ELSE <<Head(s)>> \o PyLiteralValue(Tail(s))

\* title = "${title.replace(/"/g, '\\"')}"
PyTitle(title) == PyLiteralValue(JsEscapeQuotes(title))

PyTitleOk(title) == PyLiteralOk(JsEscapeQuotes(title))

(***************************************************************************)
(* The movie resolver of the analysis script.                              *)
(***************************************************************************)
\* rows of ds whose lower-cased title contains the lower-cased title
MatchingRowsBySubstring(ds, title) ==
    {i \in DOMAIN ds : Contains(Lower(ds[i].title), Lower(title))}

\* rows of ds whose lower-cased title equals the lower-cased title
MatchingRows(ds, title) ==
    {i \in DOMAIN ds : Lower(ds[i].title) = Lower(title)}

MinOf(S) == CHOOSE i \in S : \A j \in S : i <= j

\* movie_row.empty: the placeholder movie
StubMovie(title) == [title |-> title, id |-> NoId, genres |-> "Unknown"]

\* movie_row.iloc[0] or the placeholder
ResolveMovie(ds, title) ==
    LET rows == MatchingRows(ds, title)
    IN  IF rows = {} THEN [found |-> FALSE, row |-> 0, movie |-> StubMovie(title)]
        ELSE [found |-> TRUE, row |-> MinOf(rows), movie |-> ds[MinOf(rows)]]

(***************************************************************************)
(* The analysis cache: one JSON document, an ordered mapping from          *)
(* "id_<n>" or a normalized title to a stored analysis.                    *)
(***************************************************************************)
KeyById(n) == [kind |-> "id", id |-> n, title |-> <<>>]

KeyByTitle(t) == [kind |-> "title", id |-> NoId, title |-> NormalizeTitle(t)]

\* keyed by id if available, else by title
CacheKey(title, id) == IF id # NoId THEN KeyById(id) ELSE KeyByTitle(title)

KeyIndexes(c, k) == {i \in DOMAIN c : c[i].key = k}

HasKey(c, k) == KeyIndexes(c, k) # {}

EntryAt(c, k) == c[MinOf(KeyIndexes(c, k))].val

\* entries whose stored movie title equals the title after normalization
TitleIndexes(c, title) ==
    {i \in DOMAIN c : NormalizeTitle(c[i].val.movie_title) = NormalizeTitle(title)}

NoAnalysis ==
    [success |-> FALSE, movie_title |-> <<>>, movie_id |-> NoId,
     overall_arc |-> "", error |-> "", cached |-> FALSE]

\* a hit that keeps the stored success flag
MarkCachedOnly(a) == [a EXCEPT !.cached = TRUE]

\* a hit is returned with cached: true and success: true
MarkCached(a) == [a EXCEPT !.cached = TRUE, !.success = TRUE]

\* the lookup with the title scan tried before the id key
GetFromCacheTitleFirst(c, title, id) ==
    IF TitleIndexes(c, title) # {}
    THEN [hit |-> TRUE, val |-> MarkCached(c[MinOf(TitleIndexes(c, title))].val)]
    ELSE IF id # NoId /\ HasKey(c, KeyById(id))
         THEN [hit |-> TRUE, val |-> MarkCached(EntryAt(c, KeyById(id)))]
         ELSE [hit |-> FALSE, val |-> NoAnalysis]

\* id-keyed lookup first, then the normalized-title scan over all entries
GetFromCache(c, title, id) ==
    IF id # NoId /\ HasKey(c, KeyById(id))
    THEN [hit |-> TRUE, val |-> MarkCached(EntryAt(c, KeyById(id)))]
    ELSE IF TitleIndexes(c, title) # {}
         THEN [hit |-> TRUE, val |-> MarkCached(c[MinOf(TitleIndexes(c, title))].val)]
         ELSE [hit |-> FALSE, val |-> NoAnalysis]

\* the write that keys every entry by title, also when an id is known
SaveToCacheByTitle(c, title, a, id) ==
    LET k == KeyByTitle(title)
    IN  IF HasKey(c, k)
        THEN [i \in DOMAIN c |-> IF c[i].key = k THEN [key |-> k, val |-> a] ELSE c[i]]
        ELSE Append(c, [key |-> k, val |-> a])

\* the document with analysis a stored under the key of (title, id)
SaveToCache(c, title, a, id) ==
    LET k == CacheKey(title, id)
    IN  IF HasKey(c, k)
        THEN [i \in DOMAIN c |-> IF c[i].key = k THEN [key |-> k, val |-> a] ELSE c[i]]
        ELSE Append(c, [key |-> k, val |-> a])

(***************************************************************************)
(* State.                                                                  *)
(*   dataset  the rows of the movie dataset, in file order                 *)
(*   cache    the cache document on disk                                   *)
(*   req      the analysis requests being served                           *)
(*   probe    the last direct call of a component and what it returned     *)
(*   written  per id, the analysis last written under that id              *)
(***************************************************************************)
Reqs == 1..MaxReq

NoOut == [kind |-> "empty"]

NoResp == [status |-> 0]

\* pc: idle, spawned (child started), analyzing (cache missed, AI call in
\* flight), exited (child ended, 'close' not yet handled), closed, rejected
\* ai: none, called, ok, failed, raised, broken (what became of the AI call)
IdleReq ==
    [pc |-> "idle", title |-> <<>>, snap |-> <<>>, code |-> 0, out |-> NoOut,
     resp |-> NoResp, timer |-> "off", hit |-> FALSE, ai |-> "none",
     wrote |-> FALSE]

NoProbe == [kind |-> "none"]

NoWritten == [n \in MovieIds |-> NoAnalysis]

\* an analysis as the analyzer produces it for a movie
Analysis(ok, title, id, arc) ==
    [success |-> ok, movie_title |-> title, movie_id |-> id,
     overall_arc |-> IF ok THEN arc ELSE "",
     error |-> IF ok THEN "" ELSE "Gemini API error", cached |-> FALSE]

\* titles of the analyses written to the cache directly
WrittenTitles == {t_a, t_A, t_A__b}

\* "no movie": recommendation is null
NoMovie == [id |-> NoId]

\* intensityAnalysis = null
NoIntensity == [success |-> FALSE, kind |-> "null"]

\* the dashboard page before it is opened: nothing selected, nothing shown,
\* an empty recommendationHistory in localStorage.  page tells which page
\* of the browser tab is open: "open" is the dashboard, "history" the
\* history page.  everRecommended is a history variable: the ids of the
\* movies this browser was recommended so far.
NoDash ==
    [page |-> "closed", selectedGenre |-> "", selectedLanguage |-> "",
     recommendation |-> NoMovie, intensityAnalysis |-> NoIntensity,
     error |-> "", loading |-> FALSE,
     recommendedMovieIds |-> <<>>, history |-> <<>>, everRecommended |-> {}]

\* no recommendation request
NoRec == [pc |-> "idle"]

NoSent == <<>>

\* no path parameter: searchParams.get('path') is null or empty
NoPath == [abs |-> FALSE, segs |-> <<>>]

\* a request with no field
NoRequest == [fields |-> {}, path |-> NoPath]

\* no request to the routes
NoCalls == [route |-> "none", request |-> NoRequest, resp |-> NoResp, procs |-> <<>>]

\* the sentiments page before it is opened
NoPage == [page |-> "closed"]

OthersIdle ==
    /\ dash = NoDash
    /\ rec = NoRec
    /\ sent = NoSent
    /\ calls = NoCalls
    /\ spage = NoPage

(***************************************************************************)
(* The cache component on its own: writes and lookups with any arguments.  *)
(***************************************************************************)
CacheInit ==
    /\ dataset = <<>>
    /\ cache = <<>>
    /\ req = [r \in Reqs |-> IdleReq]
    /\ probe = NoProbe
    /\ written = NoWritten
    /\ OthersIdle

CacheWrite(a, id) ==
    /\ HasKey(cache, CacheKey(a.movie_title, id)) \/ Len(cache) < MaxWrites
    /\ cache' = SaveToCache(cache, a.movie_title, a, id)
    /\ written' = IF id # NoId THEN [written EXCEPT ![id] = a] ELSE written
    /\ probe' = [kind |-> "write", title |-> a.movie_title, id |-> id,
                 hit |-> FALSE, val |-> a]
    /\ UNCHANGED <<dataset, req, others>>

CacheLookup(title, id) ==
    /\ probe' = [kind |-> "lookup", title |-> title, id |-> id,
                 hit |-> GetFromCache(cache, title, id).hit,
                 val |-> GetFromCache(cache, title, id).val]
    /\ UNCHANGED <<dataset, cache, req, written, others>>

CacheNext ==
    \/ \E ok \in BOOLEAN, t \in WrittenTitles, id \in MovieIds \cup {NoId} :
          CacheWrite(Analysis(ok, t, id, "rising"), id)
    \/ \E t \in Titles, id \in MovieIds \cup {NoId} : CacheLookup(t, id)

CacheSpec == CacheInit /\ [][CacheNext]_vars

(***************************************************************************)
(* The resolver on its own: any dataset of at most MaxRows rows, any title.*)
(***************************************************************************)
Row(i, title) == [id |-> i, title |-> title, genres |-> "Drama"]

DatasetTitles == Titles \cup {t_bs_a}

Datasets ==
    UNION {[1..n -> DatasetTitles] : n \in 1..MaxRows}

ResolverInit ==
    /\ dataset \in {[i \in DOMAIN ts |-> Row(i, ts[i])] : ts \in Datasets}
    /\ cache = <<>>
    /\ req = [r \in Reqs |-> IdleReq]
    /\ probe = NoProbe
    /\ written = NoWritten
    /\ OthersIdle

\* lines 35-50 of the analysis script, run on the title the client sent
ResolveTitle(title) ==
    /\ probe' = IF PyTitleOk(title)
                THEN [kind |-> "resolve", title |-> title, ok |-> TRUE,
                      found |-> ResolveMovie(dataset, PyTitle(title)).found,
                      row |-> ResolveMovie(dataset, PyTitle(title)).row,
                      movie |-> ResolveMovie(dataset, PyTitle(title)).movie]
                ELSE [kind |-> "resolve", title |-> title, ok |-> FALSE,
                      found |-> FALSE, row |-> 0, movie |-> StubMovie(<<>>)]
    /\ UNCHANGED <<dataset, cache, req, written, others>>

QueryTitles == Titles \cup BackslashTitles \cup {t_q, t_bs_q}

ResolverNext == \E t \in QueryTitles : ResolveTitle(t)

ResolverSpec == ResolverInit /\ [][ResolverNext]_vars

(***************************************************************************)
(* The /api/analysis request handler and its child process.                *)
(***************************************************************************)
SpecDataset == <<Row(1, t_A), Row(2, t_a_b)>>

\* titles of the analysis requests; <<>> is a request without a title
RequestTitles == {t_a, t_b, t_B, t_bs}

\* the movie the script of request r works on
MovieOf(r) == ResolveMovie(dataset, PyTitle(req[r].title)).movie

\* the result with the cached flag never taken from the analysis
ScriptResultNeverCached(title, movie, analysis) ==
    [success |-> TRUE,
     movie |-> movie,
     intensity |-> [success |-> TRUE,
                    movie_title |-> analysis.movie_title,
                    overall_arc |-> analysis.overall_arc,
                    cached |-> FALSE]]

\* result = {"success": True, "movie": movie, "intensity": {...}}
ScriptResult(title, movie, analysis) ==
    [success |-> TRUE,
     movie |-> movie,
     intensity |-> [success |-> TRUE,
                    movie_title |-> analysis.movie_title,
                    overall_arc |-> analysis.overall_arc,
                    cached |-> analysis.cached]]

\* error_result of the script's except branch
ScriptError == [success |-> FALSE, error |-> "exception", traceback |-> "Traceback"]

Json(body) == [kind |-> "json", json |-> body]

Garbage == [kind |-> "garbage"]

Init ==
    /\ dataset = SpecDataset
    /\ cache = <<>>
    /\ req = [r \in Reqs |-> IdleReq]
    /\ probe = NoProbe
    /\ written = NoWritten
    /\ OthersIdle

\* POST without a title: 400 before anything is spawned
RejectNoTitle(r) ==
    /\ req[r].pc \in {"idle", "closed", "rejected"}
    /\ req' = [req EXCEPT ![r] =
                 [IdleReq EXCEPT !.pc = "rejected",
                                 !.resp = [status |-> 400,
                                           body |-> [error |-> "Movie title is required"]]]]
    /\ UNCHANGED <<dataset, cache, probe, written, others>>

\* POST with a title: spawn the script, arm the 120 s timer
Receive(r, title) ==
    /\ req[r].pc \in {"idle", "closed", "rejected"}
    /\ title # <<>>
    /\ req' = [req EXCEPT ![r] =
                 [IdleReq EXCEPT !.pc = "spawned", !.title = title, !.timer = "armed"]]
    /\ UNCHANGED <<dataset, cache, probe, written, others>>

\* the title does not survive as a Python literal: the script does not compile
ScriptSyntaxError(r) ==
    /\ req[r].pc = "spawned"
    /\ ~PyTitleOk(req[r].title)
    /\ req' = [req EXCEPT ![r].pc = "exited", ![r].code = 1, ![r].out = NoOut]
    /\ UNCHANGED <<dataset, cache, probe, written, others>>

\* the script resolves the movie and the analyzer finds it in the cache
ScriptCacheHit(r) ==
    /\ req[r].pc = "spawned"
    /\ PyTitleOk(req[r].title)
    /\ LET movie == MovieOf(r)
           found == GetFromCache(cache, movie.title, movie.id)
       IN  /\ found.hit
           /\ req' = [req EXCEPT ![r].pc = "exited", ![r].code = 0, ![r].hit = TRUE,
                                 ![r].out = Json(ScriptResult(PyTitle(req[r].title),
                                                              movie, found.val))]
    /\ UNCHANGED <<dataset, cache, probe, written, others>>

\* the script resolves the movie, the cache document is read and has no entry
ScriptCacheMiss(r) ==
    /\ req[r].pc = "spawned"
    /\ PyTitleOk(req[r].title)
    /\ LET movie == MovieOf(r)
       IN  ~GetFromCache(cache, movie.title, movie.id).hit
    /\ req' = [req EXCEPT ![r].pc = "analyzing", ![r].snap = cache,
                          ![r].ai = "called"]
    /\ UNCHANGED <<dataset, cache, probe, written, others>>

\* the AI collaborator answers; the analysis is stored by rewriting the
\* document as it was read, and the script prints its result
AnalysisOk(r, arc) ==
    /\ req[r].pc = "analyzing"
    /\ LET movie == MovieOf(r)
           a == Analysis(TRUE, movie.title, movie.id, arc)
       IN  /\ cache' = SaveToCache(req[r].snap, movie.title, a, movie.id)
           /\ written' = IF movie.id # NoId THEN [written EXCEPT ![movie.id] = a]
                         ELSE written
           /\ req' = [req EXCEPT ![r].pc = "exited", ![r].code = 0, ![r].wrote = TRUE,
                                 ![r].ai = "ok",
                                 ![r].snap = <<>>,
                                 ![r].out = Json(ScriptResult(PyTitle(req[r].title),
                                                              movie, a))]
    /\ UNCHANGED <<dataset, probe, others>>

\* the AI collaborator fails: the analyzer returns success: false and an error
AnalysisFailed(r) ==
    /\ req[r].pc = "analyzing"
    /\ LET movie == MovieOf(r)
           a == Analysis(FALSE, movie.title, movie.id, "")
       IN  req' = [req EXCEPT ![r].pc = "exited", ![r].code = 0, ![r].snap = <<>>,
                              ![r].ai = "failed",
                              ![r].out = Json(ScriptResult(PyTitle(req[r].title),
                                                           movie, a))]
    /\ UNCHANGED <<dataset, cache, probe, written, others>>

\* the analyzer raises: the except branch prints error_result
AnalysisRaised(r) ==
    /\ req[r].pc = "analyzing"
    /\ req' = [req EXCEPT ![r].pc = "exited", ![r].code = 0, ![r].snap = <<>>,
                          ![r].ai = "raised", ![r].out = Json(ScriptError)]
    /\ UNCHANGED <<dataset, cache, probe, written, others>>

\* stray text reaches stdout, or the interpreter dies with a non-zero code
ScriptBroken(r, code) ==
    /\ req[r].pc = "analyzing"
    /\ req' = [req EXCEPT ![r].pc = "exited", ![r].code = code, ![r].snap = <<>>,
                          ![r].ai = "broken",
                          ![r].out = IF code = 0 THEN Garbage ELSE NoOut]
    /\ UNCHANGED <<dataset, cache, probe, written, others>>

\* what the 'close' handler resolves the request with
CloseResponse(code, out) ==
    IF code = 0 /\ out.kind # "empty"
    THEN IF out.kind = "json"
         THEN IF out.json.success
              THEN [status |-> 200, body |-> out.json]
              ELSE [status |-> 400, body |-> out.json]
         ELSE [status |-> 500,
               body |-> [success |-> FALSE, error |-> "Failed to parse analysis results"]]
    ELSE [status |-> 500, body |-> [success |-> FALSE, error |-> "Analysis failed"]]

\* pythonProcess.on('close'): resolves the request unless it is resolved
OnClose(r) ==
    /\ req[r].pc = "exited"
    /\ req' = [req EXCEPT ![r].pc = "closed", ![r].code = 0, ![r].out = NoOut,
                          ![r].resp = IF req[r].resp = NoResp
                                      THEN CloseResponse(req[r].code, req[r].out)
                                      ELSE req[r].resp]
    /\ UNCHANGED <<dataset, cache, probe, written, others>>

TimeoutResponse ==
    [status |-> 500, body |-> [success |-> FALSE, error |-> "Analysis timeout"]]

\* setTimeout(120000): kills the child and resolves the request unless it
\* is resolved; the timer is never cleared, so it also fires after 'close'
OnTimeout(r) ==
    /\ req[r].timer = "armed"
    /\ req' = [req EXCEPT ![r].timer = "fired",
                          ![r].snap = <<>>,
                          ![r].pc = IF req[r].pc \in {"spawned", "analyzing"}
                                    THEN "exited" ELSE req[r].pc,
                          ![r].code = IF req[r].pc \in {"spawned", "analyzing"}
                                      THEN 143 ELSE req[r].code,
                          ![r].out = IF req[r].pc \in {"spawned", "analyzing"}
                                     THEN NoOut ELSE req[r].out,
                          ![r].resp = IF req[r].resp = NoResp
                                      THEN TimeoutResponse ELSE req[r].resp]
    /\ UNCHANGED <<dataset, cache, probe, written, others>>

Next ==
    \/ \E r \in Reqs : RejectNoTitle(r)
    \/ \E r \in Reqs, t \in RequestTitles : Receive(r, t)
    \/ \E r \in Reqs : ScriptSyntaxError(r)
    \/ \E r \in Reqs : ScriptCacheHit(r)
    \/ \E r \in Reqs : ScriptCacheMiss(r)
    \/ \E r \in Reqs, arc \in Arcs : AnalysisOk(r, arc)
    \/ \E r \in Reqs : AnalysisFailed(r)
    \/ \E r \in Reqs : AnalysisRaised(r)
    \/ \E r \in Reqs, code \in {0, 1} : ScriptBroken(r, code)
    \/ \E r \in Reqs : OnClose(r)
    \/ \E r \in Reqs : OnTimeout(r)

Spec == Init /\ [][Next]_vars

(***************************************************************************)
(* The recommendation selector, the /api/recommendations handler and the   *)
(* dashboard page that calls it.  vote_average is counted in tenths.       *)
(***************************************************************************)
GenreNames == {"Action", "Drama"}

LanguageCodes == {"en", "fr"}

\* the genres of a row, the languages and the ratings rows are built from
RowGenres == {{"Action"}, {"Action", "Drama"}, {"Drama"}}

RowVotes == {59, 60}

\* the rating threshold of the selector, 6.0
MinVote == 60

\* the page keeps the last 50 entries of the history
HistoryCap == 50

MovieRow(i, g, l, v) ==
    [id |-> i, genres |-> g, original_language |-> l, vote_average |-> v]

RecDatasets ==
    UNION {[1..n -> RowGenres \X LanguageCodes \X RowVotes] : n \in 1..MaxRows}

Range(q) == {q[i] : i \in DOMAIN q}

\* the selector with a strict rating threshold
CandidatesAboveThreshold(ds, genre, language, excluded) ==
    {i \in DOMAIN ds : /\ genre \in ds[i].genres
                       /\ ds[i].original_language = language
                       /\ ds[i].vote_average > MinVote
                       /\ ds[i].id \notin Range(excluded)}

\* rows the selector can return: genre, language, rating >= 6.0, not excluded
Candidates(ds, genre, language, excluded) ==
    {i \in DOMAIN ds : /\ genre \in ds[i].genres
                       /\ ds[i].original_language = language
                       /\ ds[i].vote_average >= MinVote
                       /\ ds[i].id \notin Range(excluded)}

\* the list of the backend as it is
SliceAll(q) == q

\* result.recommendations?.slice(0, 1) || []
Slice1(q) == IF Len(q) > 1 THEN SubSeq(q, 1, 1) ELSE q

\* the response when the backend did not succeed, as a server error
FallbackResponseError(r, err) ==
    [status |-> 500,
     body |-> [success |-> FALSE, recommendations |-> <<>>, total |-> 0,
               excludedCount |-> Len(r.excludedIds), details |-> err,
               message |-> "Python backend unavailable"]]

\* the response when the backend did not succeed: 200 with an empty list
FallbackResponse(r, err) ==
    [status |-> 200,
     body |-> [success |-> FALSE, recommendations |-> <<>>, total |-> 0,
               excludedCount |-> Len(r.excludedIds), details |-> err,
               message |-> "Python backend unavailable"]]

\* the response when the backend succeeded
RecResponse(r, recommendations, intensity) ==
    [status |-> 200,
     body |-> [success |-> TRUE, recommendations |-> recommendations,
               total |-> Len(recommendations),
               excludedCount |-> Len(r.excludedIds),
               intensity |-> intensity,
               message |-> IF recommendations = <<>>
                           THEN "No movies found with rating >= 6.0"
                           ELSE IF intensity.success
                                THEN "Found 1 recommendation with AI analysis"
                                ELSE "Found 1 recommendation"]]

\* what getGeminiAnalysis resolves with
GeminiResults ==
    {[success |-> TRUE, kind |-> "analysis"],
     [success |-> FALSE, kind |-> "error", error |-> "Analysis timeout"]}

\* why getPythonRecommendations resolves with success: false
BackendErrors == {"Python backend not available", "Python backend timeout"}

\* the ids excluded from now on, without the ids excluded before
NextExcludedForgetful(ids, id) == <<id>>

\* const newRecommendedIds = [...recommendedMovieIds, movie.id]
NextExcluded(ids, id) == Append(ids, id)

\* the new entry put in front of a history that is never cut
NextHistoryUncut(h, id) == <<id>> \o h

\* history.unshift(newEntry), then the last 50 entries are kept
NextHistory(h, id) ==
    IF Len(<<id>> \o h) > HistoryCap
    THEN SubSeq(<<id>> \o h, 1, HistoryCap)
    ELSE <<id>> \o h

\* setError(data.error || 'Failed to get recommendations')
ErrorShown(body) ==
    IF "error" \in DOMAIN body /\ body.error # ""
    THEN body.error
    ELSE "Failed to get recommendations"

\* the page after a request without a movie, with the movie shown before
\* taken away
ShowFailureClearing(d, msg) ==
    [d EXCEPT !.loading = FALSE, !.error = msg, !.recommendation = NoMovie]

\* the page after a request without a movie: setError(...) and, in the
\* finally branch, setLoading(false)
ShowFailure(d, msg) == [d EXCEPT !.loading = FALSE, !.error = msg]

\* the entries of h without the one at position i
WithoutEntry(h, i) == SubSeq(h, 1, i - 1) \o SubSeq(h, i + 1, Len(h))

RecInit ==
    /\ dataset \in {[i \in DOMAIN rows |->
                        MovieRow(i, rows[i][1], rows[i][2], rows[i][3])] :
                    rows \in RecDatasets}
    /\ cache = <<>>
    /\ req = [r \in Reqs |-> IdleReq]
    /\ probe = NoProbe
    /\ written = NoWritten
    /\ dash = NoDash
    /\ rec = NoRec
    /\ sent = NoSent
    /\ calls = NoCalls
    /\ spage = NoPage

\* the page is opened or reloaded between two requests: the state of the
\* component starts afresh and the excluded ids are read back from the
\* history in localStorage
LoadPage ==
    /\ ~dash.loading
    /\ dash' = [NoDash EXCEPT !.page = "open",
                              !.history = dash.history,
                              !.everRecommended = dash.everRecommended,
                              !.recommendedMovieIds = dash.history]
    /\ UNCHANGED <<dataset, cache, req, probe, written, rec, sent, calls, spage>>

SelectGenre(g) ==
    /\ dash.page = "open"
    /\ ~dash.loading
    /\ dash.selectedGenre # g
    /\ dash' = [dash EXCEPT !.selectedGenre = g]
    /\ UNCHANGED <<dataset, cache, req, probe, written, rec, sent, calls, spage>>

SelectLanguage(l) ==
    /\ dash.page = "open"
    /\ ~dash.loading
    /\ dash.selectedLanguage # l
    /\ dash' = [dash EXCEPT !.selectedLanguage = l]
    /\ UNCHANGED <<dataset, cache, req, probe, written, rec, sent, calls, spage>>

\* getRecommendations up to the fetch: the button is disabled while loading
\* or while a selection is missing
GetRecommendations ==
    /\ dash.page = "open"
    /\ ~dash.loading
    /\ dash.selectedGenre # "" /\ dash.selectedLanguage # ""
    /\ dash' = [dash EXCEPT !.loading = TRUE, !.error = ""]
    /\ rec' = [pc |-> "sent", genre |-> dash.selectedGenre,
               language |-> dash.selectedLanguage,
               excludedIds |-> dash.recommendedMovieIds,
               recommendations |-> <<>>, resp |-> NoResp]
    /\ UNCHANGED <<dataset, cache, req, probe, written, sent, calls, spage>>

\* the fetch rejects: the catch branch of getRecommendations
FetchFails ==
    /\ rec.pc = "sent"
    /\ rec' = NoRec
    /\ dash' = ShowFailure(dash, "Failed to connect to recommendation service")
    /\ UNCHANGED <<dataset, cache, req, probe, written, sent, calls, spage>>

\* POST: genre and language are present, the backend is called
RecReceive ==
    /\ rec.pc = "sent"
    /\ rec.genre # "" /\ rec.language # ""
    /\ rec' = [rec EXCEPT !.pc = "backend"]
    /\ UNCHANGED <<dataset, cache, req, probe, written, dash, sent, calls, spage>>

\* getPythonRecommendations resolves with success: false
BackendFails(err) ==
    /\ rec.pc = "backend"
    /\ rec' = [rec EXCEPT !.pc = "answered", !.resp = FallbackResponse(rec, err)]
    /\ UNCHANGED <<dataset, cache, req, probe, written, dash, sent, calls, spage>>

\* the selector finds no row: the handler answers at once
BackendFindsNone ==
    /\ rec.pc = "backend"
    /\ Candidates(dataset, rec.genre, rec.language, rec.excludedIds) = {}
    /\ rec' = [rec EXCEPT !.pc = "answered",
                          !.resp = RecResponse(rec, Slice1(<<>>), NoIntensity)]
    /\ UNCHANGED <<dataset, cache, req, probe, written, dash, sent, calls, spage>>

\* the selector returns one of the rows it can return, and the handler asks
\* for its intensity analysis
BackendFindsOne(i) ==
    /\ rec.pc = "backend"
    /\ i \in Candidates(dataset, rec.genre, rec.language, rec.excludedIds)
    /\ rec' = [rec EXCEPT !.pc = "gemini",
                          !.recommendations = Slice1(<<dataset[i]>>)]
    /\ UNCHANGED <<dataset, cache, req, probe, written, dash, sent, calls, spage>>

\* getGeminiAnalysis resolves and the handler answers
GeminiResolves(intensity) ==
    /\ rec.pc = "gemini"
    /\ rec' = [rec EXCEPT !.pc = "answered",
                          !.resp = RecResponse(rec, rec.recommendations, intensity)]
    /\ UNCHANGED <<dataset, cache, req, probe, written, dash, sent, calls, spage>>

\* getRecommendations from the response on
ShowResponse ==
    /\ rec.pc = "answered"
    /\ dash.loading
    /\ rec' = NoRec
    /\ LET data == rec.resp.body
       IN  IF data.success /\ Len(data.recommendations) > 0
           THEN dash' = [dash EXCEPT
                    !.loading = FALSE,
                    !.recommendation = data.recommendations[1],
                    !.intensityAnalysis = data.intensity,
                    !.history = NextHistory(dash.history, data.recommendations[1].id),
                    !.everRecommended = @ \cup {data.recommendations[1].id},
                    !.recommendedMovieIds =
                        NextExcluded(dash.recommendedMovieIds,
                                     data.recommendations[1].id)]
           ELSE dash' = ShowFailure(dash, ErrorShown(data))
    /\ UNCHANGED <<dataset, cache, req, probe, written, sent, calls, spage>>

\* the user leaves the dashboard for the history page between two requests:
\* the page loads the stored history
OpenHistoryPage ==
    /\ dash.page = "open"
    /\ ~dash.loading
    /\ dash' = [NoDash EXCEPT !.page = "history",
                              !.history = dash.history,
                              !.everRecommended = dash.everRecommended]
    /\ UNCHANGED <<dataset, cache, req, probe, written, rec, sent, calls, spage>>

\* clearHistory: localStorage.removeItem('recommendationHistory')
ClearHistory ==
    /\ dash.page = "history"
    /\ dash.history # <<>>
    /\ dash' = [dash EXCEPT !.history = <<>>]
    /\ UNCHANGED <<dataset, cache, req, probe, written, rec, sent, calls, spage>>

\* removeHistoryItem of the entry at position i
RemoveHistoryItem(i) ==
    /\ dash.page = "history"
    /\ i \in DOMAIN dash.history
    /\ dash' = [dash EXCEPT !.history = WithoutEntry(dash.history, i)]
    /\ UNCHANGED <<dataset, cache, req, probe, written, rec, sent, calls, spage>>

RecNext ==
    \/ LoadPage
    \/ \E g \in GenreNames : SelectGenre(g)
    \/ \E l \in LanguageCodes : SelectLanguage(l)
    \/ GetRecommendations
    \/ FetchFails
    \/ RecReceive
    \/ \E err \in BackendErrors : BackendFails(err)
    \/ BackendFindsNone
    \/ \E i \in DOMAIN dataset : BackendFindsOne(i)
    \/ \E intensity \in GeminiResults : GeminiResolves(intensity)
    \/ ShowResponse
    \/ OpenHistoryPage
    \/ ClearHistory
    \/ \E i \in 1..MaxRows : RemoveHistoryItem(i)

RecSpec == RecInit /\ [][RecNext]_vars

(***************************************************************************)
(* The dashboard page and the handler in a browser whose stored history is *)
(* long: HistoryCap - 1 or HistoryCap earlier recommendations, the newest  *)
(* first, and a dataset with two movies more than the history can hold.    *)
(* The page has just been opened and stays open.                           *)
(***************************************************************************)
LongRows == HistoryCap + 2

LongDataset == [i \in 1..LongRows |-> MovieRow(i, {"Action"}, "en", MinVote)]

\* the history after the movies 1..k were recommended in that order
StoredHistory(k) == [i \in 1..k |-> k + 1 - i]

LongInit ==
    /\ dataset = LongDataset
    /\ cache = <<>>
    /\ req = [r \in Reqs |-> IdleReq]
    /\ probe = NoProbe
    /\ written = NoWritten
    /\ \E k \in {HistoryCap - 1, HistoryCap} :
          dash = [NoDash EXCEPT !.page = "open",
                                !.history = StoredHistory(k),
                                !.recommendedMovieIds = StoredHistory(k),
                                !.everRecommended = 1..k]
    /\ rec = NoRec
    /\ sent = NoSent
    /\ calls = NoCalls
    /\ spage = NoPage

LongNext ==
    \/ \E g \in GenreNames : SelectGenre(g)
    \/ \E l \in LanguageCodes : SelectLanguage(l)
    \/ GetRecommendations
    \/ FetchFails
    \/ RecReceive
    \/ \E err \in BackendErrors : BackendFails(err)
    \/ BackendFindsNone
    \/ \E i \in DOMAIN dataset : BackendFindsOne(i)
    \/ \E intensity \in GeminiResults : GeminiResolves(intensity)
    \/ ShowResponse

LongSpec == LongInit /\ [][LongNext]_vars

(***************************************************************************)
(* The /api/sentiments/search script: the rows with an IMDb id whose title *)
(* contains the query, the first 20 of them.                               *)
(***************************************************************************)
\* matches.head(20)
SearchLimit == 20

SearchTitles == {t_a, t_A, t_ab, t_b, t_bs_a}

\* imdb_id of a row: missing, or an id
ImdbIds == {"", "tt1"}

SearchRow(i, title, imdb) ==
    [id |-> i, title |-> title, imdb_id |-> imdb, release_date |-> "2010-07-15"]

\* the datasets the search is tried on: up to MaxRows rows of any kind,
\* followed by no row or by 20 rows titled 'ab' that have an IMDb id
SearchDatasets ==
    {[i \in 1..(Len(rows) + k) |->
         IF i <= Len(rows) THEN SearchRow(i, rows[i][1], rows[i][2])
         ELSE SearchRow(i, t_ab, "tt1")] :
       rows \in UNION {[1..n -> SearchTitles \X ImdbIds] : n \in 0..MaxRows},
       k \in {0, SearchLimit}}

SearchQueries == {t_a, t_A, t_b, t_ab, t_bs_a, t_bs}

RECURSIVE SelectRows(_, _, _)
\* the rows of ds from row i on whose index is in keep, in dataset order
SelectRows(ds, i, keep) ==
    IF i > Len(ds) THEN <<>>
    ELSE IF i \in keep THEN <<ds[i]>> \o SelectRows(ds, i + 1, keep)
         ELSE SelectRows(ds, i + 1, keep)

Head20(q) == IF Len(q) > SearchLimit THEN SubSeq(q, 1, SearchLimit) ELSE q

\* df[imdb_id.notna() & (imdb_id != '')], then title.str.lower().str.contains(
\* query, regex=False), then head(20)
SearchMatches(ds, query) ==
    Head20(SelectRows(ds, 1,
        {i \in DOMAIN ds : /\ ds[i].imdb_id # ""
                           /\ Contains(Lower(ds[i].title), query)}))

\* what the script prints for the query the handler pasted into it
SearchResult(ds, query) ==
    [success |-> TRUE,
     movies |-> SearchMatches(ds, Lower(PyTitle(query))),
     total |-> Len(SearchMatches(ds, Lower(PyTitle(query))))]

\* the script does not compile: non-zero exit, answered by the close handler
SearchFailed == [success |-> FALSE, error |-> "SyntaxError", movies |-> <<>>]

SearchInit ==
    /\ dataset \in SearchDatasets
    /\ cache = <<>>
    /\ req = [r \in Reqs |-> IdleReq]
    /\ probe = NoProbe
    /\ written = NoWritten
    /\ OthersIdle

\* POST with a query whose child process closes before the 30 s timer
SearchMovies(query) ==
    /\ query # <<>>
    /\ probe' = [kind |-> "search", query |-> query,
                 resp |-> IF PyTitleOk(query) THEN SearchResult(dataset, query)
                          ELSE SearchFailed]
    /\ UNCHANGED <<dataset, cache, req, written, others>>

SearchNext == \E q \in SearchQueries : SearchMovies(q)

SearchSpec == SearchInit /\ [][SearchNext]_vars

(***************************************************************************)
(* The /api/sentiments/analyze handler and its script.  The title is       *)
(* pasted into a Python string literal and into the f-string of the        *)
(* prompt, where braces are replacement fields.                             *)
(***************************************************************************)
LBRACE == "{"
RBRACE == "}"

t_braces == <<LBRACE, "a", RBRACE>>
t_lbrace == <<LBRACE>>

SentimentTitles == {t_a, t_bs, t_braces, t_lbrace}

\* position of the first closing brace of s, 0 when there is none
FirstClose(s) ==
    IF \E i \in DOMAIN s : s[i] = RBRACE
    THEN CHOOSE i \in DOMAIN s : s[i] = RBRACE /\ \A j \in 1..(i - 1) : s[j] # RBRACE
    ELSE 0

RECURSIVE FString(_)
\* what becomes of text inside an f-string: "ok" when it has no replacement
\* field, "name" when a field names a variable the script does not have
\* (NameError when the prompt is built), "syntax" when the braces do not
\* pair up (the script does not compile)
FString(s) ==
    IF s = <<>> THEN "ok"
    ELSE IF Head(s) = LBRACE
         THEN IF Len(s) >= 2 /\ s[2] = LBRACE THEN FString(Tail(Tail(s)))
              ELSE IF FirstClose(s) <= 2 THEN "syntax"
                   ELSE IF FString(SubSeq(s, FirstClose(s) + 1, Len(s))) = "syntax"
                        THEN "syntax"
                        ELSE "name"
         ELSE IF Head(s) = RBRACE
              THEN IF Len(s) >= 2 /\ s[2] = RBRACE THEN FString(Tail(Tail(s)))
                   ELSE "syntax"
              ELSE FString(Tail(s))

\* the script compiles with the title pasted in
SentimentCompiles(title) ==
    PyTitleOk(title) /\ FString(JsEscapeQuotes(title)) # "syntax"

\* int(len(reviews) * 0.6) and int(len(reviews) * 0.2)
SixTenths(n) == (3 * n) \div 5

TwoTenths(n) == n \div 5

\* sentiment_data of the mock branch
MockSentiment(n) ==
    [overall_sentiment |-> "Positive",
     positive_count |-> SixTenths(n),
     negative_count |-> TwoTenths(n),
     neutral_count |-> TwoTenths(n),
     key_themes |-> <<"Acting", "Story", "Direction", "Cinematography">>,
     sentiment_summary |-> "Most reviewers appreciate the film"]

\* sentiment_data when the response of the AI holds no JSON object
FallbackSentiment ==
    [overall_sentiment |-> "Mixed", positive_count |-> 0, negative_count |-> 0,
     neutral_count |-> 0, key_themes |-> <<>>, sentiment_summary |-> "response"]

\* sentiment_data parsed from the JSON object of the response of the AI
AiSentiment ==
    [overall_sentiment |-> "Negative", positive_count |-> 1, negative_count |-> 7,
     neutral_count |-> 0, key_themes |-> <<"Pacing">>, sentiment_summary |-> "AI"]

\* result = {"success": True, "movie_title": ..., "total_reviews": ..., **sentiment_data}
SentimentResult(title, n, data) ==
    [success |-> TRUE, movie_title |-> PyTitle(title), total_reviews |-> n,
     overall_sentiment |-> data.overall_sentiment,
     positive_count |-> data.positive_count,
     negative_count |-> data.negative_count,
     neutral_count |-> data.neutral_count,
     key_themes |-> data.key_themes,
     sentiment_summary |-> data.sentiment_summary]

NoReviews == [success |-> FALSE, error |-> "No reviews found for this movie"]

IdleSent ==
    [pc |-> "idle", title |-> <<>>, reviews |-> 0, mock |-> FALSE, code |-> 0,
     out |-> NoOut, resp |-> NoResp, timer |-> "off"]

SentInit ==
    /\ dataset = <<>>
    /\ cache = <<>>
    /\ req = [r \in Reqs |-> IdleReq]
    /\ probe = NoProbe
    /\ written = NoWritten
    /\ dash = NoDash
    /\ rec = NoRec
    /\ sent = [r \in Reqs |-> IdleSent]
    /\ calls = NoCalls
    /\ spage = NoPage

\* POST without a title or without an IMDb id: 400
SentReject(r) ==
    /\ sent[r].pc \in {"idle", "closed", "rejected"}
    /\ sent' = [sent EXCEPT ![r] =
                  [IdleSent EXCEPT !.pc = "rejected",
                                   !.resp = [status |-> 400,
                                             body |-> [error |-> "Title and IMDb ID are required"]]]]
    /\ UNCHANGED <<dataset, cache, req, probe, written, dash, rec, calls, spage>>

\* POST with a title and an IMDb id: spawn the script, arm the 120 s timer
SentReceive(r, title) ==
    /\ sent[r].pc \in {"idle", "closed", "rejected"}
    /\ title # <<>>
    /\ sent' = [sent EXCEPT ![r] =
                  [IdleSent EXCEPT !.pc = "spawned", !.title = title, !.timer = "armed"]]
    /\ UNCHANGED <<dataset, cache, req, probe, written, dash, rec, calls, spage>>

\* the script does not compile
SentSyntaxError(r) ==
    /\ sent[r].pc = "spawned"
    /\ ~SentimentCompiles(sent[r].title)
    /\ sent' = [sent EXCEPT ![r].pc = "exited", ![r].code = 1]
    /\ UNCHANGED <<dataset, cache, req, probe, written, dash, rec, calls, spage>>

\* the script runs to its end: n reviews are fetched; the analyzer is in
\* mock mode or not; answer is what the AI does when it is called
SentScript(r, n, mock, answer) ==
    /\ sent[r].pc = "spawned"
    /\ SentimentCompiles(sent[r].title)
    /\ mock => answer = "none"
    /\ (~mock /\ n > 0) => answer # "none"
    /\ n = 0 => answer = "none"
    /\ sent' = [sent EXCEPT
          ![r].pc = "exited", ![r].code = 0, ![r].reviews = n, ![r].mock = mock,
          ![r].out =
             IF n = 0 THEN Json(NoReviews)
             ELSE IF FString(JsEscapeQuotes(sent[r].title)) = "name"
                  THEN Json(ScriptError)
                  ELSE IF mock
                       THEN Json(SentimentResult(sent[r].title, n, MockSentiment(n)))
                       ELSE IF answer = "json"
                            THEN Json(SentimentResult(sent[r].title, n, AiSentiment))
                            ELSE IF answer = "text"
                                 THEN Json(SentimentResult(sent[r].title, n,
                                                           FallbackSentiment))
                                 ELSE Json(ScriptError)]
    /\ UNCHANGED <<dataset, cache, req, probe, written, dash, rec, calls, spage>>

\* what the 'close' handler resolves the request with
SentCloseResponse(code, out) ==
    IF code = 0 /\ out.kind # "empty"
    THEN IF out.kind = "json"
         THEN [status |-> 200, body |-> out.json]
         ELSE [status |-> 200,
               body |-> [success |-> FALSE,
                         error |-> "Failed to parse sentiment analysis"]]
    ELSE [status |-> 200, body |-> [success |-> FALSE, error |-> "stderr"]]

\* pythonProcess.on('close')
SentClose(r) ==
    /\ sent[r].pc = "exited"
    /\ sent' = [sent EXCEPT ![r].pc = "closed", ![r].code = 0, ![r].out = NoOut,
                            ![r].resp = IF sent[r].resp = NoResp
                                        THEN SentCloseResponse(sent[r].code, sent[r].out)
                                        ELSE sent[r].resp]
    /\ UNCHANGED <<dataset, cache, req, probe, written, dash, rec, calls, spage>>

SentTimeoutResponse ==
    [status |-> 200, body |-> [success |-> FALSE, error |-> "Analysis timeout"]]

\* setTimeout(120000): kills the child and resolves the request unless it
\* is resolved
SentTimeout(r) ==
    /\ sent[r].timer = "armed"
    /\ sent' = [sent EXCEPT
          ![r].timer = "fired",
          ![r].pc = IF sent[r].pc = "spawned" THEN "exited" ELSE sent[r].pc,
          ![r].code = IF sent[r].pc = "spawned" THEN 143 ELSE sent[r].code,
          ![r].resp = IF sent[r].resp = NoResp
                      THEN SentTimeoutResponse ELSE sent[r].resp]
    /\ UNCHANGED <<dataset, cache, req, probe, written, dash, rec, calls, spage>>

SentNext ==
    \/ \E r \in Reqs : SentReject(r)
    \/ \E r \in Reqs, t \in SentimentTitles : SentReceive(r, t)
    \/ \E r \in Reqs : SentSyntaxError(r)
    \/ \E r \in Reqs, n \in 0..MaxReviews, mock \in BOOLEAN,
          answer \in {"none", "json", "text", "raise"} : SentScript(r, n, mock, answer)
    \/ \E r \in Reqs : SentClose(r)
    \/ \E r \in Reqs : SentTimeout(r)

SentSpec == SentInit /\ [][SentNext]_vars

(***************************************************************************)
(* The sentiments page: a search that lists movies, and one "Get           *)
(* Sentiments" button per listed movie.  flights counts, per movie, the    *)
(* analysis requests of the page that are not answered yet.                *)
(***************************************************************************)
\* sentimentResults[movie.id] is undefined
NoSentiment == [success |-> FALSE, kind |-> "none"]

\* what /api/sentiments/analyze answers with status 200
SentimentAnswers ==
    {[success |-> TRUE, kind |-> "analysis"],
     [success |-> FALSE, kind |-> "error"]}

\* the page when it is opened
OpenPage ==
    [page |-> "open", movies |-> {}, searchLoading |-> FALSE, error |-> "",
     analyzingMovie |-> NoId,
     sentimentResults |-> [m \in MovieIds |-> NoSentiment],
     flights |-> [m \in MovieIds |-> 0]]

PageInit ==
    /\ dataset = <<>>
    /\ cache = <<>>
    /\ req = [r \in Reqs |-> IdleReq]
    /\ probe = NoProbe
    /\ written = NoWritten
    /\ dash = NoDash
    /\ rec = NoRec
    /\ sent = NoSent
    /\ calls = NoCalls
    /\ spage = OpenPage

\* searchMovies up to the fetch: the button is disabled while searching
PageSearch ==
    /\ ~spage.searchLoading
    /\ spage' = [spage EXCEPT !.searchLoading = TRUE, !.error = "", !.movies = {}]
    /\ UNCHANGED <<dataset, cache, req, probe, written, dash, rec, sent, calls>>

\* searchMovies from the response on: the movies found are listed
PageSearchDone(found) ==
    /\ spage.searchLoading
    /\ spage' = [spage EXCEPT
                    !.searchLoading = FALSE,
                    !.movies = found,
                    !.error = IF found = {}
                              THEN "No scrapable movies found with that title"
                              ELSE spage.error]
    /\ UNCHANGED <<dataset, cache, req, probe, written, dash, rec, sent, calls>>

\* analyzeSentiments(movie) up to the fetch, from the button of a listed
\* movie, which is disabled when analyzingMovie is that movie
AnalyzeSentiments(m) ==
    /\ m \in spage.movies
    /\ spage.analyzingMovie # m
    /\ spage.flights[m] < MaxReq
    /\ spage' = [spage EXCEPT !.analyzingMovie = m, !.error = "",
                              !.flights[m] = @ + 1]
    /\ UNCHANGED <<dataset, cache, req, probe, written, dash, rec, sent, calls>>

\* analyzeSentiments(movie) from a 200 response on
AnalyzeAnswered(m, data) ==
    /\ spage.flights[m] > 0
    /\ spage' = [spage EXCEPT !.sentimentResults[m] = data,
                              !.analyzingMovie = NoId,
                              !.flights[m] = @ - 1]
    /\ UNCHANGED <<dataset, cache, req, probe, written, dash, rec, sent, calls>>

\* analyzeSentiments(movie) when the fetch rejects or the status is not 200
AnalyzeFailed(m) ==
    /\ spage.flights[m] > 0
    /\ spage' = [spage EXCEPT !.error = "An error occurred during analysis",
                              !.analyzingMovie = NoId,
                              !.flights[m] = @ - 1]
    /\ UNCHANGED <<dataset, cache, req, probe, written, dash, rec, sent, calls>>

PageNext ==
    \/ PageSearch
    \/ \E found \in SUBSET MovieIds : PageSearchDone(found)
    \/ \E m \in MovieIds : AnalyzeSentiments(m)
    \/ \E m \in MovieIds, data \in SentimentAnswers : AnalyzeAnswered(m, data)
    \/ \E m \in MovieIds : AnalyzeFailed(m)

PageSpec == PageInit /\ [][PageNext]_vars

(***************************************************************************)
(* The child processes of the routes and their timers: the search script   *)
(* (30 s), the sentiment script that fetches and analyses reviews (120 s), *)
(* the analysis script (120 s), and the recommendation backend (45 s)      *)
(* followed by the AI analysis of the recommended movie (120 s); and the   *)
(* graph route, which reads a file and spawns nothing.  One request at a   *)
(* time: the routes share no state.                                        *)
(***************************************************************************)
Routes == {"search", "sentiment", "analysis", "recommend"}

AllRoutes == Routes \cup {"graph"}

\* the child processes a request of the route can spawn
ProcsOf(route) ==
    IF route = "recommend" THEN {"backend", "gemini"}
    ELSE IF route = "graph" THEN {}
         ELSE {route}

\* the required fields, with the IMDb id of a sentiment request optional
RequiredFieldsTitleOnly(route) ==
    IF route = "analysis" THEN {"title"}
    ELSE IF route = "search" THEN {"query"}
    ELSE IF route = "sentiment" THEN {"title"}
    ELSE IF route = "recommend" THEN {"genre", "language"}
    ELSE {"path"}

\* the fields the handler of the route tests before it does anything else
RequiredFields(route) ==
    IF route = "analysis" THEN {"title"}
    ELSE IF route = "search" THEN {"query"}
    ELSE IF route = "sentiment" THEN {"title", "imdb_id"}
    ELSE IF route = "recommend" THEN {"genre", "language"}
    ELSE {"path"}

\* the 400 response of the route
MissingFieldResponse(route) ==
    [status |-> 400,
     body |-> [error |-> IF route = "analysis" THEN "Movie title is required"
                         ELSE IF route = "search" THEN "Search query is required"
                         ELSE IF route = "sentiment" THEN "Title and IMDb ID are required"
                         ELSE IF route = "recommend" THEN "Genre and language are required"
                         ELSE "Graph path is required"]]

(***************************************************************************)
(* The graph route.  A path is a sequence of segments, absolute or         *)
(* relative; the file system is fixed: the project directory with one      *)
(* graph, and files outside of it.                                         *)
(***************************************************************************)
\* process.cwd()
ProjectRoot == <<"app">>

GraphFiles ==
    {<<"app", "graphs", "g.png">>, <<"etc", "passwd">>, <<"secret.png">>}

GraphDirs == {<<"app">>, <<"app", "graphs">>, <<"etc">>}

RelPath(segs) == [abs |-> FALSE, segs |-> segs]

AbsPath(segs) == [abs |-> TRUE, segs |-> segs]

\* the path parameters a client sends
GraphPaths ==
    {RelPath(<<"graphs", "g.png">>), RelPath(<<"graphs">>),
     RelPath(<<"missing.png">>), RelPath(<<"..", "secret.png">>),
     RelPath(<<"graphs", "..", "..", "etc", "passwd">>),
     AbsPath(<<"etc", "passwd">>), AbsPath(<<"app", "graphs", "g.png">>),
     AbsPath(<<"app", "..", "secret.png">>)}

RECURSIVE Normalize(_, _)
\* the segments with every ".." resolved against the segments before it
Normalize(segs, acc) ==
    IF segs = <<>> THEN acc
    ELSE IF Head(segs) = ".."
         THEN Normalize(Tail(segs),
                        IF acc = <<>> THEN <<>> ELSE SubSeq(acc, 1, Len(acc) - 1))
         ELSE Normalize(Tail(segs), Append(acc, Head(segs)))

\* path.isAbsolute(graphPath) ? graphPath : path.join(projectRoot, graphPath),
\* as the file system resolves it
AbsolutePath(p) ==
    IF p.abs THEN Normalize(p.segs, <<>>) ELSE Normalize(ProjectRoot \o p.segs, <<>>)

\* GET: 404 when nothing is there, the content of the file when it can be
\* read, 500 when reading it throws
GraphResponse(p) ==
    IF AbsolutePath(p) \in GraphFiles
    THEN [status |-> 200, body |-> [file |-> AbsolutePath(p)]]
    ELSE IF AbsolutePath(p) \in GraphDirs
         THEN [status |-> 500, body |-> [error |-> "Failed to load graph"]]
         ELSE [status |-> 404, body |-> [error |-> "Graph file not found"]]

FirstProc(route) == IF route = "recommend" THEN "backend" ELSE route

AllProcs == {"search", "sentiment", "analysis", "backend", "gemini"}

\* the promise of the process is not resolved yet
NoResult == [kind |-> "pending"]

IdleProc ==
    [pc |-> "idle", timer |-> "off", code |-> 0, out |-> NoOut, result |-> NoResult]

\* what the script of a process can print before it exits with code 0
OutsOf(n) ==
    IF n = "backend"
    THEN {Json([success |-> TRUE, recommendations |-> <<>>]),
          Json([success |-> TRUE, recommendations |-> <<MovieRow(1, {"Action"}, "en", 60)>>]),
          Json([success |-> TRUE,
                recommendations |-> <<MovieRow(1, {"Action"}, "en", 60),
                                      MovieRow(2, {"Action"}, "en", 60)>>]),
          Json([success |-> FALSE, error |-> "exception", recommendations |-> <<>>]),
          Garbage}
    ELSE {Json([success |-> TRUE]), Json(ScriptError), Garbage}

\* what the 'close' handler of the process resolves with
ProcCloseResult(n, code, out) ==
    IF n = "analysis" THEN CloseResponse(code, out)
    ELSE IF n = "sentiment" THEN SentCloseResponse(code, out)
    ELSE IF n = "search"
         THEN [status |-> 200,
               body |-> IF code = 0 /\ out.kind = "json" THEN out.json
                        ELSE [success |-> FALSE, error |-> "Search failed",
                              movies |-> <<>>]]
         ELSE IF code = 0 /\ out.kind = "json" THEN out.json
              ELSE [success |-> FALSE, error |-> "process failed"]

\* the timer of the process resolves with nothing
ProcTimeoutPending(n) == NoResult

\* what the timer of the process resolves with
ProcTimeoutResult(n) ==
    IF n = "analysis" THEN TimeoutResponse
    ELSE IF n = "sentiment" THEN SentTimeoutResponse
    ELSE IF n = "search"
         THEN [status |-> 200,
               body |-> [success |-> FALSE, error |-> "Search timeout",
                         movies |-> <<>>]]
         ELSE IF n = "backend"
              THEN [success |-> FALSE, error |-> "Python backend timeout"]
              ELSE [success |-> FALSE, error |-> "Analysis timeout"]

\* the request of the recommendation handler, which excludes nothing here
AnyRec == [excludedIds |-> <<>>]

\* the promise of process n takes the value of every resolve
ResolvedLastWins(c, n, res) ==
    IF res = NoResult THEN c
    ELSE LET d == [c EXCEPT !.procs[n].result = res]
         IN  IF n \in {"search", "sentiment", "analysis"}
             THEN [d EXCEPT !.resp = res]
             ELSE IF n = "backend"
                  THEN IF ~res.success
                       THEN [d EXCEPT !.resp = FallbackResponse(AnyRec, res.error)]
                       ELSE IF Slice1(res.recommendations) = <<>>
                            THEN [d EXCEPT !.resp = RecResponse(AnyRec, <<>>, NoIntensity)]
                            ELSE [d EXCEPT !.procs["gemini"].pc = "running",
                                           !.procs["gemini"].timer = "armed"]
                  ELSE [d EXCEPT !.resp =
                           RecResponse(AnyRec,
                                       Slice1(c.procs["backend"].result.recommendations),
                                       res)]

\* the promise of process n resolves with res, unless it is resolved or res
\* is nothing, and the handler goes on: it answers, or it asks for the AI
\* analysis of the movie the backend returned
Resolved(c, n, res) ==
    IF c.procs[n].result # NoResult \/ res = NoResult THEN c
    ELSE LET d == [c EXCEPT !.procs[n].result = res]
         IN  IF n \in {"search", "sentiment", "analysis"}
             THEN [d EXCEPT !.resp = res]
             ELSE IF n = "backend"
                  THEN IF ~res.success
                       THEN [d EXCEPT !.resp = FallbackResponse(AnyRec, res.error)]
                       ELSE IF Slice1(res.recommendations) = <<>>
                            THEN [d EXCEPT !.resp = RecResponse(AnyRec, <<>>, NoIntensity)]
                            ELSE [d EXCEPT !.procs["gemini"].pc = "running",
                                           !.procs["gemini"].timer = "armed"]
                  ELSE [d EXCEPT !.resp =
                           RecResponse(AnyRec,
                                       Slice1(c.procs["backend"].result.recommendations),
                                       res)]

CallInit ==
    /\ dataset = <<>>
    /\ cache = <<>>
    /\ req = [r \in Reqs |-> IdleReq]
    /\ probe = NoProbe
    /\ written = NoWritten
    /\ dash = NoDash
    /\ rec = NoRec
    /\ sent = NoSent
    /\ calls = NoCalls
    /\ spage = NoPage

\* a request arrives once the one before it is answered and lacks a field
\* the route requires: 400, nothing is spawned
CallReject(route, fields) ==
    /\ calls.route = "none" \/ calls.resp # NoResp
    /\ ~(RequiredFields(route) \subseteq fields)
    /\ calls' = [route |-> route,
                 request |-> [fields |-> fields, path |-> NoPath],
                 resp |-> MissingFieldResponse(route),
                 procs |-> [n \in ProcsOf(route) |-> IdleProc]]
    /\ UNCHANGED <<dataset, cache, req, probe, written, dash, rec, sent, spage>>

\* a request with its fields arrives: the first child process of the route
\* is spawned and the timer of that process is armed
CallStart(route, fields) ==
    /\ calls.route = "none" \/ calls.resp # NoResp
    /\ RequiredFields(route) \subseteq fields
    /\ calls' = [route |-> route,
                 request |-> [fields |-> fields, path |-> NoPath],
                 resp |-> NoResp,
                 procs |-> [n \in ProcsOf(route) |->
                              IF n = FirstProc(route)
                              THEN [IdleProc EXCEPT !.pc = "running", !.timer = "armed"]
                              ELSE IdleProc]]
    /\ UNCHANGED <<dataset, cache, req, probe, written, dash, rec, sent, spage>>

\* a recommendation request arrives and backend_api.py is not there:
\* getPythonRecommendations resolves at once and spawns nothing
CallNoBackend(fields) ==
    /\ calls.route = "none" \/ calls.resp # NoResp
    /\ RequiredFields("recommend") \subseteq fields
    /\ calls' = Resolved([route |-> "recommend",
                          request |-> [fields |-> fields, path |-> NoPath],
                          resp |-> NoResp,
                          procs |-> [n \in ProcsOf("recommend") |-> IdleProc]],
                         "backend",
                         [success |-> FALSE, error |-> "Python backend not available"])
    /\ UNCHANGED <<dataset, cache, req, probe, written, dash, rec, sent, spage>>

\* GET of the graph route with a path parameter
GraphGet(p) ==
    /\ calls.route = "none" \/ calls.resp # NoResp
    /\ p # NoPath
    /\ calls' = [route |-> "graph",
                 request |-> [fields |-> {"path"}, path |-> p],
                 resp |-> GraphResponse(p),
                 procs |-> [n \in ProcsOf("graph") |-> IdleProc]]
    /\ UNCHANGED <<dataset, cache, req, probe, written, dash, rec, sent, spage>>

\* the child process ends by itself
CallExit(n, code, out) ==
    /\ n \in DOMAIN calls.procs
    /\ calls.procs[n].pc = "running"
    /\ calls' = [calls EXCEPT !.procs[n].pc = "exited",
                              !.procs[n].code = code,
                              !.procs[n].out = IF code = 0 THEN out ELSE NoOut]
    /\ UNCHANGED <<dataset, cache, req, probe, written, dash, rec, sent, spage>>

\* pythonProcess.on('close')
CallClose(n) ==
    /\ n \in DOMAIN calls.procs
    /\ calls.procs[n].pc = "exited"
    /\ calls' = Resolved([calls EXCEPT !.procs[n].pc = "closed",
                                       !.procs[n].code = 0,
                                       !.procs[n].out = NoOut],
                         n, ProcCloseResult(n, calls.procs[n].code, calls.procs[n].out))
    /\ UNCHANGED <<dataset, cache, req, probe, written, dash, rec, sent, spage>>

\* setTimeout: pythonProcess.kill(), then resolve
CallTimeout(n) ==
    /\ n \in DOMAIN calls.procs
    /\ calls.procs[n].timer = "armed"
    /\ calls' = Resolved([calls EXCEPT
                             !.procs[n].timer = "fired",
                             !.procs[n].pc = IF calls.procs[n].pc = "running"
                                             THEN "exited" ELSE calls.procs[n].pc,
                             !.procs[n].code = IF calls.procs[n].pc = "running"
                                               THEN 143 ELSE calls.procs[n].code],
                         n, ProcTimeoutResult(n))
    /\ UNCHANGED <<dataset, cache, req, probe, written, dash, rec, sent, spage>>

CallNext ==
    \/ \E route \in AllRoutes :
          \E fields \in SUBSET RequiredFields(route) : CallReject(route, fields)
    \/ \E route \in Routes :
          \E fields \in SUBSET RequiredFields(route) : CallStart(route, fields)
    \/ \E fields \in SUBSET RequiredFields("recommend") : CallNoBackend(fields)
    \/ \E p \in GraphPaths : GraphGet(p)
    \/ \E n \in AllProcs, code \in {0, 1} :
          \E out \in OutsOf(n) : CallExit(n, code, out)
    \/ \E n \in AllProcs : CallClose(n)
    \/ \E n \in AllProcs : CallTimeout(n)

CallSpec == CallInit /\ [][CallNext]_vars

\* the timers of the event loop fire, and the 'close' events are delivered
CallLive ==
    /\ CallSpec
    /\ \A n \in AllProcs : WF_vars(CallTimeout(n))

(***************************************************************************)
(* Properties of the cache component (checked under CacheSpec).            *)
(***************************************************************************)
\* x carries the content of the stored analysis a
SameContent(x, a) ==
    /\ x.movie_title = a.movie_title
    /\ x.movie_id = a.movie_id
    /\ x.overall_arc = a.overall_arc
    /\ x.error = a.error

\* the titles that are equal up to letter case and whitespace, by hand
TitleClass(t) ==
    IF t \in {t_a, t_A, t_sp_a} THEN "a"
    ELSE IF t \in {t_a_b, t_A__b} THEN "a b"
    ELSE IF t = t_ab THEN "ab"
    ELSE IF t \in {t_b, t_B} THEN "b"
    ELSE "other"

\* C1: a lookup with an id whose key id_<n> holds entry A returns A, also
\* when another entry matches the queried title by normalized title.
C1_IdBeforeTitle ==
    (probe.kind = "lookup" /\ probe.id # NoId /\ HasKey(cache, KeyById(probe.id)))
        => (probe.hit /\ SameContent(probe.val, EntryAt(cache, KeyById(probe.id))))

\* a lookup whose id key holds A while an earlier, different entry B, and
\* not A, matches the queried title
C1_Witness ==
    /\ probe.kind = "lookup"
    /\ probe.id # NoId
    /\ \E i, j \in DOMAIN cache :
          /\ j < i
          /\ cache[i].key = KeyById(probe.id)
          /\ TitleClass(cache[j].val.movie_title) = TitleClass(probe.title)
          /\ TitleClass(cache[i].val.movie_title) # TitleClass(probe.title)
    /\ probe.hit

\* C2 as stated: an analysis written under id X and looked up by id X comes
\* back equal in every field except cached = true.
C2_RoundTripExact ==
    (probe.kind = "lookup" /\ probe.id # NoId /\ written[probe.id] # NoAnalysis)
        => (probe.hit /\ probe.val = [written[probe.id] EXCEPT !.cached = TRUE])

\* C2 amended: an analysis written under id X and looked up by id X comes
\* back equal in every field except cached = true and success, which is
\* returned as true whatever was written.
C2_RoundTrip ==
    (probe.kind = "lookup" /\ probe.id # NoId /\ written[probe.id] # NoAnalysis)
        => (probe.hit /\ probe.val = [written[probe.id] EXCEPT !.cached = TRUE,
                                                                 !.success = TRUE])

\* a failed analysis was written under an id and is looked up by that id
\* with a title that is not its own
C2_Witness ==
    /\ probe.kind = "lookup"
    /\ probe.id # NoId
    /\ written[probe.id] # NoAnalysis
    /\ ~written[probe.id].success
    /\ TitleClass(written[probe.id].movie_title) # TitleClass(probe.title)
    /\ probe.hit

\* C4: every cache hit is returned with cached = true and success = true,
\* whatever success flag the stored entry has.
C4_HitIsCachedSuccess ==
    (probe.kind = "lookup" /\ probe.hit)
        => (probe.val.cached = TRUE /\ probe.val.success = TRUE)

\* a hit on a stored failed analysis
C4_Witness ==
    /\ probe.kind = "lookup"
    /\ probe.hit
    /\ \E i \in DOMAIN cache :
          /\ ~cache[i].val.success
          /\ SameContent(probe.val, cache[i].val)
          /\ probe.val.error # ""

\* C5: a lookup by title alone hits whenever an entry stored under an id
\* key has a movie title equal to the queried title up to letter case and
\* whitespace, and what it returns has such a title.
C5_TitleAloneHits ==
    (/\ probe.kind = "lookup"
     /\ probe.id = NoId
     /\ \E i \in DOMAIN cache :
           /\ cache[i].key.kind = "id"
           /\ TitleClass(cache[i].val.movie_title) = TitleClass(probe.title))
        => (probe.hit /\ TitleClass(probe.val.movie_title) = TitleClass(probe.title))

\* a title-only lookup that hits an id-keyed entry, the only one of its
\* title class, whose stored title differs from the query in case and blanks
C5_Witness ==
    /\ probe.kind = "lookup"
    /\ probe.id = NoId
    /\ probe.title = t_a_b
    /\ probe.hit
    /\ probe.val.movie_title = t_A__b
    /\ \A i \in DOMAIN cache :
          TitleClass(cache[i].val.movie_title) = "a b" => cache[i].key.kind = "id"

(***************************************************************************)
(* Properties of the analysis request (checked under Spec).                *)
(***************************************************************************)
\* the title key of each class of titles, by hand
CanonicalTitle(t) ==
    IF TitleClass(t) = "a" THEN t_a
    ELSE IF TitleClass(t) = "a b" THEN t_a_b
    ELSE IF TitleClass(t) = "ab" THEN t_ab
    ELSE IF TitleClass(t) = "b" THEN t_b
    ELSE t

\* the key an analysis of movie m is to be stored under
ExpectedKey(m) ==
    IF m.id # NoId THEN [kind |-> "id", id |-> m.id, title |-> <<>>]
    ELSE [kind |-> "title", id |-> NoId, title |-> CanonicalTitle(m.title)]

\* request r has been answered by its 'close' handler
AnsweredByClose(r) ==
    /\ req[r].pc = "closed"
    /\ req[r].resp # TimeoutResponse

\* C3 as stated: an entry of the cache stays under its key with unchanged
\* content across every step of the system.
C3_EntriesPersist ==
    [][\A i \in DOMAIN cache :
          /\ HasKey(cache', cache[i].key)
          /\ EntryAt(cache', cache[i].key) = cache[i].val]_vars

AbsentFromDataset(r) ==
    /\ req[r].title \in Titles
    /\ \A i \in DOMAIN dataset : Lower(dataset[i].title) # Lower(req[r].title)

\* C8 as stated: a request whose title matches no dataset row and has no
\* cache entry never calls the AI collaborator, writes nothing to the cache
\* and is answered with 404.
C8_AbsentTitleNotFound ==
    \A r \in Reqs :
       (req[r].pc \notin {"idle", "rejected"} /\ AbsentFromDataset(r) /\ ~req[r].hit)
          => /\ req[r].ai = "none"
             /\ ~req[r].wrote
             /\ AnsweredByClose(r) => req[r].resp.status = 404

\* C9 as stated: every response other than NotFound carries both movie and
\* intensity.
C9_ShapeMovieIntensity ==
    \A r \in Reqs :
       (req[r].pc \notin {"idle", "rejected"} /\ req[r].resp # NoResp
           /\ req[r].resp.status # 404)
          => {"movie", "intensity"} \subseteq DOMAIN req[r].resp.body

\* C10 as stated: when the AI collaborator failed for a title of the
\* dataset, the answer carries an intensity with success = false and a
\* non-empty error.
C10_FailureReported ==
    \A r \in Reqs :
       (/\ AnsweredByClose(r)
        /\ req[r].ai \in {"failed", "raised"}
        /\ ~AbsentFromDataset(r))
          => /\ "intensity" \in DOMAIN req[r].resp.body
             /\ req[r].resp.body.intensity.success = FALSE
             /\ "error" \in DOMAIN req[r].resp.body.intensity
             /\ req[r].resp.body.intensity.error # ""

\* the title of request r is read unchanged by the script and matches a
\* dataset row
ResolvesInDataset(r) ==
    /\ req[r].title \in Titles \cup {t_B}
    /\ ResolveMovie(dataset, PyTitle(req[r].title)).found

\* C11 as stated: a request whose title resolves in the dataset is always
\* answered with status 200 and a body carrying a success flag; when the AI
\* collaborator failed, printed something unparsable or the timeout fired,
\* the body reports success = false.
C11_AlwaysSuccessEnvelope ==
    \A r \in Reqs :
       (req[r].pc \notin {"idle", "rejected"} /\ ResolvesInDataset(r)
           /\ req[r].resp # NoResp)
          => /\ req[r].resp.status = 200
             /\ "success" \in DOMAIN req[r].resp.body
             /\ (req[r].ai \in {"raised", "broken"} \/ req[r].resp = TimeoutResponse)
                   => req[r].resp.body.success = FALSE

\* the script of request r reads the title unchanged and no dataset row
\* matches it
Unresolved(r) ==
    /\ PyTitleOk(req[r].title)
    /\ PyTitle(req[r].title) = req[r].title
    /\ ~ResolveMovie(dataset, PyTitle(req[r].title)).found

\* C17 as stated: a request served from the cache is never answered 404 and
\* carries the cached intensity; when its title matches no dataset row, the
\* movie of the response takes its title from the cached entry.
C17_HitSynthesizedFromEntry ==
    \A r \in Reqs :
       (req[r].hit /\ AnsweredByClose(r))
          => /\ req[r].resp.status # 404
             /\ "intensity" \in DOMAIN req[r].resp.body
             /\ req[r].resp.body.intensity.cached
             /\ Unresolved(r) =>
                   req[r].resp.body.movie.title
                      = req[r].resp.body.intensity.movie_title

\* C18 as stated: when two requests for different movies have both stored
\* their analysis, the cache holds the entries of both.
C18_NoLostUpdate ==
    \A r1, r2 \in Reqs :
       (/\ r1 # r2
        /\ req[r1].wrote /\ req[r2].wrote
        /\ ExpectedKey(MovieOf(r1)) # ExpectedKey(MovieOf(r2)))
          => /\ \E i \in DOMAIN cache : cache[i].key = ExpectedKey(MovieOf(r1))
             /\ \E i \in DOMAIN cache : cache[i].key = ExpectedKey(MovieOf(r2))

(***************************************************************************)
(* Properties of the resolver (checked under ResolverSpec).                *)
(***************************************************************************)
\* s and t are the same text up to letter case
SameLetters(s, t) ==
    /\ Len(s) = Len(t)
    /\ \A i \in DOMAIN s : \/ s[i] = t[i]
                           \/ {s[i], t[i]} = {"a", "A"}
                           \/ {s[i], t[i]} = {"b", "B"}

RowsContaining(title) ==
    {i \in DOMAIN dataset : Contains(Lower(dataset[i].title), Lower(title))}

\* rows of the dataset whose title equals the title, letter case aside
RowsEqual(title) ==
    {i \in DOMAIN dataset : Lower(dataset[i].title) = Lower(title)}

\* C19 as stated, for titles the script reads unchanged: the resolver
\* returns the first row that contains the title as a substring, letter
\* case aside; when no row contains it, the first row that equals it,
\* letter case aside; when no row does either, nothing.
C19_SubstringFirst ==
    (probe.kind = "resolve" /\ probe.title \in Titles)
        => IF RowsContaining(probe.title) # {}
           THEN probe.found /\ probe.row = MinOf(RowsContaining(probe.title))
           ELSE IF RowsEqual(probe.title) # {}
                THEN probe.found /\ probe.row = MinOf(RowsEqual(probe.title))
                ELSE ~probe.found

(***************************************************************************)
(* Properties of the recommendations (checked under RecSpec).              *)
(***************************************************************************)
\* row m has the genre among its genres, the language and a rating of at
\* least 6.0
Wanted(m, genre, language) ==
    /\ genre \in m.genres
    /\ m.original_language = language
    /\ m.vote_average >= 60

\* the movies the handler has selected for the request in progress
Selected ==
    IF rec.pc \in {"gemini", "answered"} THEN Range(rec.recommendations) ELSE {}

\* C12: no call returns a movie whose id is in the excluded set it was
\* given, and over the calls of the page, each of which adds the returned id
\* to the excluded set of the following calls, no movie is shown twice.
C12_NoExcludedReturned ==
    /\ \A m \in Selected : m.id \notin Range(rec.excludedIds)
    /\ \A i, j \in DOMAIN dash.history :
          i # j => dash.history[i] # dash.history[j]

\* two movies were shown, their ids were passed as excluded ids, both still
\* have the requested genre, language and rating, and the call returns none
C12_Witness ==
    /\ rec.pc = "answered"
    /\ rec.resp.body.success
    /\ rec.resp.body.recommendations = <<>>
    /\ Len(dash.history) = 2
    /\ Range(rec.excludedIds) = Range(dash.history)
    /\ \A i \in DOMAIN dataset :
          dataset[i].id \in Range(rec.excludedIds)
             /\ Wanted(dataset[i], rec.genre, rec.language)

\* C13 as stated: when no row can be returned, the response is a success
\* with an empty list and an explanatory message, and the page shows that
\* message and not a failure message.
C13_EmptyIsExplained ==
    [][/\ (/\ rec.pc = "backend"
           /\ rec'.pc = "answered"
           /\ rec'.resp.body.success)
             => /\ rec'.resp.status = 200
                /\ rec'.resp.body.recommendations = <<>>
                /\ rec'.resp.body.message = "No movies found with rating >= 6.0"
       /\ (/\ rec.pc = "answered"
           /\ rec'.pc = "idle"
           /\ rec.resp.body.success
           /\ rec.resp.body.recommendations = <<>>)
             => /\ dash'.error = rec.resp.body.message
                /\ dash'.error # "Failed to get recommendations"]_vars

\* C14: every movie the handler returns has the requested genre among its
\* genres, the requested language and a rating of at least 6.0; and when
\* the selector has run and the dataset holds such a row outside the
\* excluded ids, the response carries a movie.
C14_MatchesFilters ==
    /\ \A m \in Selected : Wanted(m, rec.genre, rec.language)
    /\ (/\ rec.pc = "answered"
        /\ rec.resp.body.success
        /\ \E i \in DOMAIN dataset :
              /\ Wanted(dataset[i], rec.genre, rec.language)
              /\ dataset[i].id \notin Range(rec.excludedIds))
          => Len(rec.resp.body.recommendations) = 1

\* a movie rated exactly 6.0 is returned while a row with the genre and the
\* language and a lower rating is not
C14_Witness ==
    /\ rec.pc = "answered"
    /\ Len(rec.resp.body.recommendations) = 1
    /\ rec.resp.body.recommendations[1].vote_average = 60
    /\ \E i \in DOMAIN dataset :
          /\ rec.genre \in dataset[i].genres
          /\ dataset[i].original_language = rec.language
          /\ dataset[i].vote_average < 60

(***************************************************************************)
(* Properties of the sentiment search (checked under SearchSpec).          *)
(***************************************************************************)
\* the row has an IMDb id and its title contains the query as typed, letter
\* case aside
IsCandidate(row, query) ==
    row.imdb_id # "" /\ Contains(Lower(row.title), Lower(query))

RECURSIVE CandidatesFrom(_, _)
\* the candidates for the query among the rows from row i on
CandidatesFrom(i, query) ==
    IF i > Len(dataset) THEN <<>>
    ELSE IF IsCandidate(dataset[i], query)
         THEN <<dataset[i]>> \o CandidatesFrom(i + 1, query)
         ELSE CandidatesFrom(i + 1, query)

\* C20 as stated: the search answers with the first at most 20 candidates in
\* dataset order and with their number as total.
C20_SearchCandidates ==
    probe.kind = "search"
       => /\ probe.resp.success
          /\ probe.resp.movies =
                SubSeq(CandidatesFrom(1, probe.query), 1,
                       IF Len(CandidatesFrom(1, probe.query)) > 20 THEN 20
                       ELSE Len(CandidatesFrom(1, probe.query)))
          /\ probe.resp.total = Len(probe.resp.movies)

(***************************************************************************)
(* Properties of the sentiment analysis (checked under SentSpec).          *)
(***************************************************************************)
\* request r fetched reviews with the analyzer in mock mode and was answered
\* by its 'close' handler
MockAnswered(r) ==
    /\ sent[r].pc = "closed"
    /\ sent[r].resp # SentTimeoutResponse
    /\ sent[r].mock
    /\ sent[r].reviews > 0

\* C16 as stated: a request that fetched reviews while the analyzer is in
\* mock mode is answered with success = true; its counts never add up to
\* more than total_reviews; and two such requests with the same number of
\* reviews carry the same sentiment, counts, themes and summary.
C16_PlaceholderDeterministic ==
    \A r1, r2 \in Reqs :
       MockAnswered(r1) =>
          /\ sent[r1].resp.body.success
          /\ sent[r1].resp.body.positive_count + sent[r1].resp.body.negative_count
                + sent[r1].resp.body.neutral_count <= sent[r1].resp.body.total_reviews
          /\ (MockAnswered(r2) /\ sent[r2].reviews = sent[r1].reviews) =>
                /\ sent[r2].resp.body.success
                /\ sent[r2].resp.body.overall_sentiment
                      = sent[r1].resp.body.overall_sentiment
                /\ sent[r2].resp.body.positive_count = sent[r1].resp.body.positive_count
                /\ sent[r2].resp.body.negative_count = sent[r1].resp.body.negative_count
                /\ sent[r2].resp.body.neutral_count = sent[r1].resp.body.neutral_count
                /\ sent[r2].resp.body.key_themes = sent[r1].resp.body.key_themes
                /\ sent[r2].resp.body.sentiment_summary
                      = sent[r1].resp.body.sentiment_summary

(***************************************************************************)
(* Properties of the child processes and their timers (checked under       *)
(* CallLive).                                                              *)
(***************************************************************************)
\* the answer c.resp carries the success: false result of process n: as its
\* own body, or, for the AI analysis of a recommendation, as the intensity
\* of the body
CarriesFailure(c, n) ==
    /\ c.resp # NoResp
    /\ IF n = "gemini"
       THEN ~c.resp.body.intensity.success
       ELSE ~c.resp.body.success

\* C15: when the timer of a child process fires while the process has not
\* closed and its request is not answered, the process is killed and the
\* request is answered at once with the success: false result of the call;
\* and every request is eventually answered.
C15_TimeoutBoundsEveryCall ==
    /\ [][\A n \in AllProcs :
            (/\ n \in DOMAIN calls.procs
             /\ calls.procs[n].timer = "armed"
             /\ calls.procs[n].pc \in {"running", "exited"}
             /\ calls.procs[n].result = NoResult
             /\ n \in DOMAIN calls'.procs
             /\ calls'.procs[n].timer = "fired")
               => /\ calls'.procs[n].pc = "exited"
                  /\ calls.procs[n].pc = "running" => calls'.procs[n].code = 143
                  /\ calls'.procs[n].result # NoResult
                  /\ CarriesFailure(calls', n)]_vars
    /\ (calls.route # "none" /\ calls.resp = NoResp) ~> (calls.resp # NoResp)

\* a recommendation whose backend returned a movie and whose AI analysis was
\* killed by its timer: answered with the movie and the failed analysis
C15_Witness ==
    /\ calls.route = "recommend"
    /\ calls.procs["gemini"].timer = "fired"
    /\ calls.procs["gemini"].code = 143
    /\ calls.resp # NoResp
    /\ calls.resp.body.intensity.error = "Analysis timeout"
    /\ Len(calls.resp.body.recommendations) = 1

(***************************************************************************)
(* Properties of the routes (checked under CallSpec).                      *)
(***************************************************************************)
\* f is a file inside the project directory
InsideProject(f) ==
    /\ Len(f) > Len(ProjectRoot)
    /\ SubSeq(f, 1, Len(ProjectRoot)) = ProjectRoot

\* the request of the graph route designates an existing file outside the
\* project directory
DesignatesOutsideFile(c) ==
    /\ c.route = "graph"
    /\ c.request.path # NoPath
    /\ AbsolutePath(c.request.path) \in GraphFiles
    /\ ~InsideProject(AbsolutePath(c.request.path))

\* C21: the graph route never answers with the content of a file outside the
\* project directory, whatever path parameter designates it.
C21_GraphInsideProject ==
    DesignatesOutsideFile(calls) =>
        ~(/\ calls.resp.status = 200
          /\ calls.resp.body.file = AbsolutePath(calls.request.path))

\* the backend of the recommendation request has resolved without success
BackendFailed(c) ==
    /\ c.route = "recommend"
    /\ c.procs["backend"].result # NoResult
    /\ ~c.procs["backend"].result.success

\* C22: when the recommendation backend fails (file missing, non-zero exit,
\* unparsable output, timeout), the request is answered with 200,
\* success = false, an empty list and total = 0, and the AI analysis is not
\* started.
C22_BackendFailureAnswersEmpty ==
    /\ [](BackendFailed(calls) =>
            /\ calls.resp # NoResp
            /\ calls.resp.status = 200
            /\ ~calls.resp.body.success
            /\ calls.resp.body.recommendations = <<>>
            /\ calls.resp.body.total = 0
            /\ calls.procs["gemini"] = IdleProc)
    /\ [][(\/ /\ CallClose("backend")
              /\ calls.procs["backend"].result = NoResult
              /\ \/ calls.procs["backend"].code # 0
                 \/ calls.procs["backend"].out.kind # "json"
           \/ /\ CallTimeout("backend")
              /\ calls.procs["backend"].result = NoResult
           \/ \E fields \in SUBSET {"genre", "language"} : CallNoBackend(fields))
             => BackendFailed(calls')]_vars

\* the backend was killed by its 45 s timer and the request is answered
C22_Witness ==
    /\ calls.route = "recommend"
    /\ calls.procs["backend"].timer = "fired"
    /\ calls.procs["backend"].code = 143
    /\ calls.procs["backend"].result # NoResult
    /\ calls.procs["backend"].result.error = "Python backend timeout"
    /\ calls.resp # NoResp

\* the recommendation request is answered with success = true
RecSucceeded(c) ==
    /\ c.route = "recommend"
    /\ c.resp # NoResp
    /\ c.resp.status = 200
    /\ c.resp.body.success

\* C23: a successful recommendations response holds at most one movie, its
\* total is the number of movies, the AI analysis is run exactly when a movie
\* is returned (null intensity for an empty list), and a failed AI analysis
\* leaves success = true with the movie present.
C23_OneMovieWithIntensity ==
    /\ RecSucceeded(calls) =>
          /\ Len(calls.resp.body.recommendations) <= 1
          /\ calls.resp.body.total = Len(calls.resp.body.recommendations)
          /\ IF calls.resp.body.recommendations = <<>>
             THEN /\ calls.resp.body.intensity = NoIntensity
                  /\ calls.procs["gemini"] = IdleProc
             ELSE /\ calls.procs["gemini"].pc # "idle"
                  /\ calls.procs["gemini"].result # NoResult
                  /\ calls.resp.body.intensity = calls.procs["gemini"].result
    /\ (/\ calls.route = "recommend"
        /\ calls.procs["gemini"].result # NoResult)
          => /\ RecSucceeded(calls)
             /\ Len(calls.resp.body.recommendations) = 1
             /\ calls.resp.body.recommendations[1] =
                   calls.procs["backend"].result.recommendations[1]

\* the backend printed two movies and the AI analysis of the first failed:
\* the response is a success with that one movie
C23_Witness ==
    /\ RecSucceeded(calls)
    /\ Len(calls.procs["backend"].result.recommendations) = 2
    /\ calls.procs["gemini"].result # NoResult
    /\ ~calls.procs["gemini"].result.success
    /\ Len(calls.resp.body.recommendations) = 1

\* C27: the promise of a child process is decided by the first of its
\* 'close' event and its timeout; the later event changes neither the result
\* nor the response, and an answered request is not answered again.
C27_FirstEventDecides ==
    [][\A n \in AllProcs :
          (CallClose(n) \/ CallTimeout(n)) =>
             /\ IF calls.procs[n].result = NoResult
                THEN calls'.procs[n].result =
                        IF CallClose(n)
                        THEN ProcCloseResult(n, calls.procs[n].code, calls.procs[n].out)
                        ELSE ProcTimeoutResult(n)
                ELSE /\ calls'.procs[n].result = calls.procs[n].result
                     /\ calls'.resp = calls.resp
             /\ calls.resp # NoResp => calls'.resp = calls.resp]_vars

\* the analysis script closed with a result and the timer fired afterwards:
\* the response is the one of the 'close' handler
C27_Witness ==
    /\ calls.route = "analysis"
    /\ calls.procs["analysis"].pc = "closed"
    /\ calls.procs["analysis"].timer = "fired"
    /\ calls.resp # NoResp
    /\ calls.resp.status = 200

\* C28: the timer of a child process does not fire, and sends no kill, once
\* the 'close' event of the process has been handled.
C28_NoKillAfterClose ==
    [][\A n \in AllProcs : CallTimeout(n) => calls.procs[n].pc # "closed"]_vars

\* the request of the route lacks a field the route requires
Lacks(route, fields) ==
    \/ route = "analysis" /\ "title" \notin fields
    \/ route = "search" /\ "query" \notin fields
    \/ route = "sentiment" /\ ("title" \notin fields \/ "imdb_id" \notin fields)
    \/ route = "recommend" /\ ("genre" \notin fields \/ "language" \notin fields)
    \/ route = "graph" /\ "path" \notin fields

\* C29: a request that lacks a required field is answered with 400 and no
\* child process is spawned for it.
C29_MissingFieldRejected ==
    (calls.route # "none" /\ Lacks(calls.route, calls.request.fields)) =>
        /\ calls.resp # NoResp
        /\ calls.resp.status = 400
        /\ \A n \in DOMAIN calls.procs : calls.procs[n] = IdleProc

\* a sentiment analysis request with a title and no IMDb id was rejected
C29_Witness ==
    /\ calls.route = "sentiment"
    /\ calls.request.fields = {"title"}
    /\ calls.resp # NoResp
    /\ calls.resp.status = 400
    /\ calls.procs["sentiment"] = IdleProc

(***************************************************************************)
(* Properties of the dashboard page (C24 checked under LongSpec, C25 and   *)
(* C30 under RecSpec).                                                     *)
(***************************************************************************)
\* the response the page is about to show carries a movie
CarriesMovie(r) ==
    /\ r.pc = "answered"
    /\ r.resp.body.success
    /\ Len(r.resp.body.recommendations) > 0

\* C24: the stored history never holds more than 50 entries, and a
\* successful recommendation puts its movie first and keeps the entries
\* that remain in the order they had (newest first).
C24_HistoryCappedNewestFirst ==
    /\ [](Len(dash.history) <= HistoryCap)
    /\ [][(ShowResponse /\ CarriesMovie(rec)) =>
             /\ dash'.history # <<>>
             /\ dash'.history[1] = rec.resp.body.recommendations[1].id
             /\ \A i \in 2..Len(dash'.history) :
                   dash'.history[i] = dash.history[i - 1]]_vars

\* more than 50 movies were recommended in this browser: the history is
\* full and its first entry is the movie shown
C24_Witness ==
    /\ Cardinality(dash.everRecommended) > HistoryCap
    /\ Len(dash.history) = HistoryCap
    /\ dash.recommendation # NoMovie
    /\ dash.history[1] = dash.recommendation.id

\* C25: every request the dashboard sends excludes every movie this browser
\* was recommended before.
C25_ExcludesEveryEarlierMovie ==
    rec.pc = "sent" => dash.everRecommended \subseteq Range(rec.excludedIds)

\* C30: a request that ends without a movie, or whose fetch fails, changes
\* nothing of the page and of the stored history but the error message and
\* the loading flag, which is false afterwards.
C30_FailureChangesOnlyError ==
    [][(FetchFails \/ (ShowResponse /\ ~CarriesMovie(rec))) =>
          /\ dash'.history = dash.history
          /\ dash'.recommendedMovieIds = dash.recommendedMovieIds
          /\ dash'.recommendation = dash.recommendation
          /\ dash'.intensityAnalysis = dash.intensityAnalysis
          /\ dash'.selectedGenre = dash.selectedGenre
          /\ dash'.selectedLanguage = dash.selectedLanguage
          /\ dash'.page = dash.page
          /\ ~dash'.loading]_vars

\* a request failed after a movie was recommended: the movie and its
\* analysis are still shown, next to the error
C30_Witness ==
    /\ dash.page = "open"
    /\ dash.recommendation # NoMovie
    /\ dash.intensityAnalysis # NoIntensity
    /\ dash.history # <<>>
    /\ dash.error # ""
    /\ ~dash.loading

(***************************************************************************)
(* Properties of the sentiments page (checked under PageSpec).             *)
(***************************************************************************)
\* C26: while an analysis request of a movie is not answered, the button of
\* the movie is disabled and no second request of that movie is started.
C26_ButtonDisabledInFlight ==
    \A m \in MovieIds :
        spage.flights[m] > 0 =>
            /\ spage.analyzingMovie = m
            /\ spage.flights[m] = 1

====
